---- MODULE Spec2Model ----
(***************************************************************************)
(* Model of the streamlit_demo ingestion pipeline:                         *)
(*   - the two recursive crawlers (app/crawler.py, scrape_site_script.py), *)
(*   - the FAISS index cache of app/streamlit-chat.py, its chat handler    *)
(*     and concurrent calls of load_or_create_vector_store,                *)
(*   - the chunker (app/chunker.py) and get_index_name.                    *)
(* Each subsystem has its own specification (SpecCrawl, SpecCache,         *)
(* SpecChat, SpecConc, SpecChunker, SpecName); the variables of the other  *)
(* subsystems stay at their initial value.                                 *)
(***************************************************************************)
EXTENDS Integers, Sequences, FiniteSets, TLC

VARIABLES
    \* ---- the crawled web site and the crawl parameters
    site,           \* the pages served by driver.get: page key -> anchors and data-link elements
    max_depth,      \* scrape_site's max_depth parameter
    domain,         \* scrape_site's domain parameter (host string)
    start_url,      \* the URL the current run was started on
    crawler,        \* which script runs: "scrape_with_content" | "scrape_site" | "none"
    \* ---- module globals of the crawlers
    visited,        \* crawler.py: visited
    data_content,   \* crawler.py: data_content, as a set of <<key, content>> pairs (a dict)
    visited_urls,   \* scrape_site_script.py: visited_urls
    \* ---- the interpreter
    stack,          \* call stack of the recursive function, innermost frame last
    crash,          \* exception that propagated out of the outermost call: "none" | kind
    runs,           \* number of crawl runs started in this process
    \* ---- history of the current run
    fetchLog,       \* sequence of [url, depth]: the calls of driver.get
    failLog,        \* set of [url, kind, ancestors]: exceptions raised while processing url
    pruneLog,       \* set of [url, depth]: calls that returned at the entry check
    combined_file,  \* scrape_site_script.py: the URLs whose text was appended to combined_file
    visitedAtStart, \* the visited set of the running crawler when the run started
    \* ---- app/streamlit-chat.py: files and process memory
    files,          \* the chunk files: json_file_path -> NoFile | File(list of chunk records)
    disk,           \* FAISS_INDEX_DIR: index_path -> what the file system holds there
    memo_load_chunks,      \* st.cache_data of load_chunks, a dict
    memo_load_or_create,   \* st.cache_resource of load_or_create_vector_store, a dict
    memo_create,           \* st.cache_resource of create_vector_store, a dict
    memo_qa_chain,         \* st.cache_resource of build_qa_chain, a dict
    qa_chain,       \* st.session_state["qa_chain"]: the store its retriever reads, or NoChain
    lastOp,         \* the last button handler that ran, with what it did and returned
    \* ---- calls of get_index_name
    index_names,    \* the names computed so far, a dict: <<json_file_path, model>> -> name
    \* ---- app/chunker.py
    input_file,     \* data_links_with_content.json: NoFile | File(list of <<data_link, content>>)
    chunk_params,   \* [chunk_size, chunk_overlap] of the chunk_content call
    chunker_result, \* how the chunk_content call ended, "none" before it ran
    \* ---- app/streamlit-chat.py: the chat
    messages,       \* st.session_state["messages"]
    lastQuery,      \* the last run of the chat handler: what was retrieved, shown and raised
    \* ---- app/streamlit-chat.py: concurrent calls of load_or_create_vector_store
    workers,        \* worker -> the position and locals of its call
    server          \* what st.cache_resource shares between calls of one server process

crawlVars == <<site, max_depth, domain, start_url, crawler, visited, data_content,
               visited_urls, stack, crash, runs, fetchLog, failLog, pruneLog,
               combined_file, visitedAtStart>>

cacheVars == <<files, disk, memo_load_chunks, memo_load_or_create, memo_create,
               memo_qa_chain, qa_chain, lastOp>>

\* the variables of the remaining specifications
extVars == <<index_names, input_file, chunk_params, chunker_result, messages, lastQuery,
             workers, server>>

vars == <<crawlVars, cacheVars, extVars>>

-----------------------------------------------------------------------------
(* Bounds *)

MaxDepthBound == 2      \* max_depth ranges over 0..MaxDepthBound
MaxRuns == 2            \* crawl runs per process

\* The interpreter's recursion limit (1000 in CPython against a default
\* max_depth of 3), scaled so that it stays above every depth the depth bound
\* admits, as it does in the program.
RecursionLimit == MaxDepthBound + 4

-----------------------------------------------------------------------------
(* URLs: urllib.parse and tldextract *)

Url(scheme, netloc, path, frag) ==
    [scheme |-> scheme, netloc |-> netloc, path |-> path, frag |-> frag]

\* href / data-link attribute values as they appear in the HTML
Abs(u)   == [kind |-> "abs",  url |-> u]                \* "https://host/path#frag", "mailto:..."
Rel(p)   == [kind |-> "rel",  path |-> p]               \* "/path"
Frag(f)  == [kind |-> "frag", frag |-> f]               \* "#frag"

\* urljoin(base, href): an absolute reference replaces the base, a rooted path
\* replaces path and fragment, a fragment-only reference replaces the fragment.
urljoin(base, href) ==
    CASE href.kind = "abs"  -> href.url
      [] href.kind = "rel"  -> [base EXCEPT !.path = href.path, !.frag = ""]
      [] href.kind = "frag" -> [base EXCEPT !.frag = href.frag]

\* urlparse(u).netloc and urlparse(u).scheme
netloc(u) == u.netloc
scheme(u) == u.scheme

\* The host tldextract sees in a string: the netloc of a hierarchical URL, and
\* for a scheme without "//" (mailto:) whatever follows the last "@".
AfterAt(s) == IF s = "info@www.site.com" THEN "www.site.com" ELSE s
LenientNetloc(u) == IF u.netloc # "" THEN u.netloc ELSE AfterAt(u.path)

\* tldextract.extract(host): (domain, suffix) under the public suffix list
tldextract(host) ==
    CASE host = "www.site.com"  -> [domain |-> "site",  suffix |-> "com"]
      [] host = "blog.site.com" -> [domain |-> "site",  suffix |-> "com"]
      [] host = "www.site.org"  -> [domain |-> "site",  suffix |-> "org"]
      [] host = "other.org"     -> [domain |-> "other", suffix |-> "org"]
      [] OTHER                  -> [domain |-> host,    suffix |-> ""]

is_valid_url(href) == scheme(href) \in {"http", "https", ""}

\* variant that compares the domain label only, not the public suffix
is_same_domain_NoSuffix(url, dom) ==
    tldextract(dom).domain = tldextract(LenientNetloc(url)).domain

is_same_domain(url, dom) ==
    LET parsed_domain == tldextract(dom)
        parsed_url    == tldextract(LenientNetloc(url))
    IN  parsed_domain.domain = parsed_url.domain /\ parsed_domain.suffix = parsed_url.suffix

-----------------------------------------------------------------------------
(* The web sites the crawlers are run on *)

A       == Url("https", "www.site.com", "/", "")
B       == Url("https", "www.site.com", "/b", "")
C       == Url("https", "www.site.com", "/c", "")
D       == Url("https", "www.site.com", "/d", "")
Blog    == Url("https", "blog.site.com", "/", "")
SiteOrg == Url("https", "www.site.org", "/", "")
Ext     == Url("https", "other.org", "/", "")
Mail    == Url("mailto", "", "info@www.site.com", "")

Page(anchors, datalinks) == [anchors |-> anchors, datalinks |-> datalinks]
NoPage == Page(<<>>, <<>>)

\* The example of the specification: A links to B and C, C links back to A.
Site3 == [u \in {A, B, C} |->
            CASE u = A -> Page(<<Rel("/b"), Rel("/c")>>, <<Frag("a1")>>)
              [] u = B -> Page(<<>>, <<Abs(B)>>)
              [] u = C -> Page(<<Abs(A)>>, <<>>)]

\* A site with fragment links, links to other hosts and schemes, and cycles.
SiteMixed == [u \in {A, B, C, Blog} |->
            CASE u = A    -> Page(<<Abs(Ext), Abs(Mail), Rel("/b"), Abs(Blog)>>, <<Frag("a1"), Rel("/x")>>)
              [] u = B    -> Page(<<Frag("top"), Rel("/c"), Abs(SiteOrg)>>, <<Abs(B)>>)
              [] u = C    -> Page(<<Rel("/"), Rel("/b")>>, <<>>)
              [] u = Blog -> Page(<<Abs(C), Abs(A)>>, <<Frag("a1")>>)]

\* A site whose start page has only out-of-scope links.
SiteLeaf == [u \in {A, C} |->
            CASE u = A -> Page(<<Abs(Ext), Abs(SiteOrg)>>, <<>>)
              [] u = C -> Page(<<>>, <<Frag("c1")>>)]

\* A site with two paths to C: A -> C directly and A -> B -> C with the link
\* to B first on A; C links to D.
SiteDiamond == [u \in {A, B, C, D} |->
            CASE u = A -> Page(<<Rel("/b"), Rel("/c")>>, <<>>)
              [] u = B -> Page(<<Rel("/c")>>, <<>>)
              [] u = C -> Page(<<Rel("/d")>>, <<>>)
              [] u = D -> Page(<<>>, <<>>)]

Sites == {Site3, SiteMixed, SiteLeaf, SiteDiamond}
StartUrls == {A, C}
Domains == {"www.site.com", "blog.site.com"}

\* driver.get(url); driver.page_source: the browser drops the fragment when it
\* requests the page; a URL the site does not serve yields a page without links.
PageKey(u) == [u EXCEPT !.frag = ""]
page_source(u) == IF PageKey(u) \in DOMAIN site THEN site[PageKey(u)] ELSE NoPage

\* soup.find_all('a', href=True)
Anchors(u) == page_source(u).anchors
\* soup.find_all(attrs={'data-link': True})
DataLinks(u) == page_source(u).datalinks
\* el.get_text(...) of the elements of a page
TextOf(u) == PageKey(u).path

-----------------------------------------------------------------------------
(* The interpreter: frames of the recursive functions *)

Frame(fn, url, depth) == [fn |-> fn, base_url |-> url, current_depth |-> depth,
                          pc |-> "entry", i |-> 1]

Top == stack[Len(stack)]
Pop == SubSeq(stack, 1, Len(stack) - 1)
SetTop(f) == [stack EXCEPT ![Len(stack)] = f]
Running(fn) == stack # <<>> /\ Top.fn = fn
At(fn, pc) == Running(fn) /\ Top.pc = pc

\* the URLs of the callers of the innermost frame
Ancestors == {stack[k].base_url : k \in 1 .. Len(stack) - 1}

Fail(kind) == failLog \cup {[url |-> Top.base_url, kind |-> kind, ancestors |-> Ancestors]}

\* dict[key] = value
DictSet(d, k, v) == {p \in d : p[1] # k} \cup {<<k, v>>}
DictKeys(d) == {p[1] : p \in d}

SWC == "scrape_with_content"
SS  == "scrape_site"

-----------------------------------------------------------------------------
(* app/crawler.py: scrape_with_content(base_url, driver) *)

\* The recursive call passes (full_url, base_url, driver) to a function that
\* takes (base_url, driver): binding the arguments raises TypeError.
ArityMatches == Len(<<"full_url", "base_url", "driver">>) = Len(<<"base_url", "driver">>)

\* data_link = el['data-link']; if it starts with "#": urljoin(base_url, data_link).
\* Any other value is the key as it stands: an absolute value is the URL it
\* spells, a rooted path stays the path.
DataLinkKey(base_url, data_link) ==
    CASE data_link.kind = "frag" -> urljoin(base_url, data_link)
      [] data_link.kind = "abs"  -> data_link.url
      [] OTHER                   -> data_link

RECURSIVE StoreDataLinks(_, _, _, _)
StoreDataLinks(d, base_url, els, k) ==
    IF k > Len(els) THEN d
    ELSE StoreDataLinks(DictSet(d, DataLinkKey(base_url, els[k]), TextOf(base_url)),
                        base_url, els, k + 1)

StartSwc(url) ==
    /\ stack = <<>> /\ crash = "none" /\ runs < MaxRuns
    /\ runs' = runs + 1
    /\ crawler' = SWC
    /\ start_url' = url
    /\ stack' = <<Frame(SWC, url, 0)>>
    /\ fetchLog' = <<>> /\ failLog' = {} /\ pruneLog' = {}
    /\ visitedAtStart' = visited
    /\ UNCHANGED <<site, max_depth, domain, visited, data_content, visited_urls,
                   crash, combined_file>>
    /\ UNCHANGED <<cacheVars, extVars>>

\* if base_url in visited: return;  visited.add(base_url)
SwcEntry ==
    /\ At(SWC, "entry")
    /\ IF Top.base_url \in visited
       THEN /\ stack' = Pop
            /\ pruneLog' = pruneLog \cup {[url |-> Top.base_url, depth |-> Top.current_depth]}
            /\ UNCHANGED visited
       ELSE /\ visited' = visited \cup {Top.base_url}
            /\ stack' = SetTop([Top EXCEPT !.pc = "fetch"])
            /\ UNCHANGED pruneLog
    /\ UNCHANGED <<site, max_depth, domain, start_url, crawler, data_content, visited_urls,
                   crash, runs, fetchLog, failLog, combined_file, visitedAtStart>>
    /\ UNCHANGED <<cacheVars, extVars>>

\* driver.get(base_url); an exception is caught by the function's except clause
SwcFetch ==
    /\ At(SWC, "fetch")
    /\ fetchLog' = Append(fetchLog, [url |-> Top.base_url, depth |-> Top.current_depth])
    /\ \E ok \in BOOLEAN :
         IF ok THEN /\ stack' = SetTop([Top EXCEPT !.pc = "parse"])
                    /\ UNCHANGED failLog
               ELSE /\ failLog' = Fail("fetch")
                    /\ stack' = Pop
    /\ UNCHANGED <<site, max_depth, domain, start_url, crawler, visited, data_content,
                   visited_urls, crash, runs, pruneLog, combined_file, visitedAtStart>>
    /\ UNCHANGED <<cacheVars, extVars>>

\* soup = BeautifulSoup(...); the data-link loop
SwcParse ==
    /\ At(SWC, "parse")
    /\ \E ok \in BOOLEAN :
         IF ok THEN /\ data_content' = StoreDataLinks(data_content, Top.base_url,
                                                      DataLinks(Top.base_url), 1)
                    /\ stack' = SetTop([Top EXCEPT !.pc = "links", !.i = 1])
                    /\ UNCHANGED failLog
               ELSE /\ failLog' = Fail("parse")
                    /\ stack' = Pop
                    /\ UNCHANGED data_content
    /\ UNCHANGED <<site, max_depth, domain, start_url, crawler, visited, visited_urls,
                   crash, runs, fetchLog, pruneLog, combined_file, visitedAtStart>>
    /\ UNCHANGED <<cacheVars, extVars>>

\* one iteration of: for a_tag in soup.find_all('a', href=True)
SwcLink ==
    /\ At(SWC, "links")
    /\ IF Top.i > Len(Anchors(Top.base_url))
       THEN stack' = Pop /\ UNCHANGED failLog
       ELSE LET full_url == urljoin(Top.base_url, Anchors(Top.base_url)[Top.i])
                caller   == SetTop([Top EXCEPT !.i = Top.i + 1])
            IN  IF netloc(full_url) = netloc(Top.base_url)
                THEN IF ~ArityMatches
                     THEN failLog' = Fail("TypeError") /\ stack' = Pop
                     ELSE IF Len(stack) >= RecursionLimit
                     THEN failLog' = Fail("RecursionError") /\ stack' = Pop
                     ELSE /\ stack' = Append(caller, Frame(SWC, full_url, Top.current_depth + 1))
                          /\ UNCHANGED failLog
                ELSE stack' = caller /\ UNCHANGED failLog
    /\ UNCHANGED <<site, max_depth, domain, start_url, crawler, visited, data_content,
                   visited_urls, crash, runs, fetchLog, pruneLog, combined_file, visitedAtStart>>
    /\ UNCHANGED <<cacheVars, extVars>>

-----------------------------------------------------------------------------
(* scrape_site_script.py: scrape_site(driver, base_url, domain, ..., max_depth, current_depth) *)

StartSs(url, dom, md) ==
    /\ stack = <<>> /\ crash = "none" /\ runs < MaxRuns
    /\ runs' = runs + 1
    /\ crawler' = SS
    /\ start_url' = url
    /\ domain' = dom
    /\ max_depth' = md
    /\ stack' = <<Frame(SS, url, 0)>>
    /\ fetchLog' = <<>> /\ failLog' = {} /\ pruneLog' = {}
    /\ visitedAtStart' = visited_urls
    /\ UNCHANGED <<site, visited, data_content, visited_urls, crash, combined_file>>
    /\ UNCHANGED <<cacheVars, extVars>>

\* variants of the entry check of scrape_site that a slip would produce
ShouldSkip_NoVisited(base_url, current_depth) == current_depth > max_depth
ShouldSkip_NoDepth(base_url, current_depth) == base_url \in visited_urls
ShouldSkip_Never(base_url, current_depth) == FALSE

\* if base_url in visited_urls or current_depth > max_depth: return
ShouldSkip(base_url, current_depth) ==
    base_url \in visited_urls \/ current_depth > max_depth

SsEntry ==
    /\ At(SS, "entry")
    /\ IF ShouldSkip(Top.base_url, Top.current_depth)
       THEN /\ stack' = Pop
            /\ pruneLog' = pruneLog \cup {[url |-> Top.base_url, depth |-> Top.current_depth]}
            /\ UNCHANGED visited_urls
       ELSE /\ visited_urls' = visited_urls \cup {Top.base_url}
            /\ stack' = SetTop([Top EXCEPT !.pc = "fetch"])
            /\ UNCHANGED pruneLog
    /\ UNCHANGED <<site, max_depth, domain, start_url, crawler, visited, data_content,
                   crash, runs, fetchLog, failLog, combined_file, visitedAtStart>>
    /\ UNCHANGED <<cacheVars, extVars>>

\* try: driver.get(base_url); page_source = driver.page_source  except: return
SsFetch ==
    /\ At(SS, "fetch")
    /\ fetchLog' = Append(fetchLog, [url |-> Top.base_url, depth |-> Top.current_depth])
    /\ \E ok \in BOOLEAN :
         IF ok THEN /\ stack' = SetTop([Top EXCEPT !.pc = "parse"])
                    /\ UNCHANGED failLog
               ELSE /\ failLog' = Fail("fetch")
                    /\ stack' = Pop
    /\ UNCHANGED <<site, max_depth, domain, start_url, crawler, visited, data_content,
                   visited_urls, crash, runs, pruneLog, combined_file, visitedAtStart>>
    /\ UNCHANGED <<cacheVars, extVars>>

\* soup = BeautifulSoup(page_source, "html.parser"); save_page_text; save_to_combined_file.
\* These statements are outside the try block: an exception leaves every frame.
SsParse ==
    /\ At(SS, "parse")
    /\ \E ok \in BOOLEAN :
         IF ok THEN /\ combined_file' = Append(combined_file, Top.base_url)
                    /\ stack' = SetTop([Top EXCEPT !.pc = "links", !.i = 1])
                    /\ UNCHANGED <<failLog, crash>>
               ELSE /\ failLog' = Fail("parse")
                    /\ crash' = "parse"
                    /\ stack' = <<>>
                    /\ UNCHANGED combined_file
    /\ UNCHANGED <<site, max_depth, domain, start_url, crawler, visited, data_content,
                   visited_urls, runs, fetchLog, pruneLog, visitedAtStart>>
    /\ UNCHANGED <<cacheVars, extVars>>

\* one iteration of: for link in soup.find_all("a", href=True)
SsLink ==
    /\ At(SS, "links")
    /\ IF Top.i > Len(Anchors(Top.base_url))
       THEN stack' = Pop /\ UNCHANGED <<failLog, crash>>
       ELSE LET full_url == urljoin(Top.base_url, Anchors(Top.base_url)[Top.i])
                caller   == SetTop([Top EXCEPT !.i = Top.i + 1])
            IN  IF is_valid_url(full_url) /\ is_same_domain(full_url, domain)
                THEN IF Len(stack) >= RecursionLimit
                     THEN failLog' = Fail("RecursionError") /\ crash' = "recursion" /\ stack' = <<>>
                     ELSE /\ stack' = Append(caller, Frame(SS, full_url, Top.current_depth + 1))
                          /\ UNCHANGED <<failLog, crash>>
                ELSE stack' = caller /\ UNCHANGED <<failLog, crash>>
    /\ UNCHANGED <<site, max_depth, domain, start_url, crawler, visited, data_content,
                   visited_urls, runs, fetchLog, pruneLog, combined_file, visitedAtStart>>
    /\ UNCHANGED <<cacheVars, extVars>>

-----------------------------------------------------------------------------
(* app/streamlit-chat.py: strings, chunk files and the index directory *)

\* Strings are sequences of tokens, so that prefixes and concatenation are
\* computed as the code computes them.
BASE_URL == <<"http", "s://www.udelphi.com">>
FAISS_INDEX_DIR == <<"./faiss_indices">>

\* the "Path to Chunked JSON" text input and the embedding model selectbox
Paths == {<<"./data/content_chunks.json">>}
Models == {<<"sentence-transformers/all-MiniLM-L6-v2">>,
           <<"sentence-transformers/all-distilroberta-v1">>}
\* the ChatGPT model selectbox
ChatModels == {"gpt-3.5-turbo"}

\* hashlib.md5(...).hexdigest(), taken as collision-free
md5(str) == <<"md5">> \o str

get_index_name(json_file_path, embedding_model_name) ==
    LET unique_string == json_file_path \o <<"_">> \o embedding_model_name
        unique_hash   == md5(unique_string)
    IN  <<"faiss_index_">> \o unique_hash

\* os.path.join(FAISS_INDEX_DIR, index_name)
IndexPath(json_file_path, embedding_model_name) ==
    FAISS_INDEX_DIR \o <<"/">> \o get_index_name(json_file_path, embedding_model_name)

IndexPaths == {IndexPath(p, m) : p \in Paths, m \in Models}

\* variant that leaves the ordinal out of the id
ChunkRecord_NoOrdinal(data_link, i, content) ==
    [data_link |-> data_link, chunk_id |-> data_link \o <<"_chunk_">>, content |-> content]

\* chunker.py: the record chunk_content appends for the i-th chunk of a link
ChunkRecord(data_link, i, content) ==
    [data_link |-> data_link, chunk_id |-> data_link \o <<"_chunk_", ToString(i)>>, content |-> content]

\* two versions of a chunk file, as chunk_content writes them
Dataset1 == << ChunkRecord(<<"http", "s://www.udelphi.com/#about">>, 0, "about v1"),
               ChunkRecord(<<"#", "team">>, 0, "team v1") >>
Dataset2 == << ChunkRecord(<<"http", "s://www.udelphi.com/#about">>, 0, "about v2"),
               ChunkRecord(<<"/", "jobs">>, 0, "jobs v2"),
               ChunkRecord(<<"/", "jobs">>, 1, "more jobs v2") >>
Datasets == {Dataset1, Dataset2}

\* a path of the file system: no file, or a JSON file holding a chunk list
NoFile == [exists |-> FALSE, data |-> <<>>]
File(data) == [exists |-> TRUE, data |-> data]

\* str.lstrip('/')
RECURSIVE lstrip_slash(_)
lstrip_slash(str) ==
    IF str # <<>> /\ Head(str) = "/" THEN lstrip_slash(Tail(str)) ELSE str

startswith(str, tok) == str # <<>> /\ Head(str) = tok

\* load_chunks: the loop that completes each data_link
CompleteLink(chunk, base_url) ==
    IF startswith(chunk.data_link, "#")
    THEN [chunk EXCEPT !.data_link = base_url \o chunk.data_link]
    ELSE IF ~startswith(chunk.data_link, "http")
    THEN [chunk EXCEPT !.data_link = base_url \o <<"/">> \o lstrip_slash(chunk.data_link)]
    ELSE chunk

\* the body of load_chunks (without its cache)
load_chunks(json_file_path, base_url) ==
    IF ~files[json_file_path].exists THEN <<>>
    ELSE [k \in DOMAIN files[json_file_path].data |->
            CompleteLink(files[json_file_path].data[k], base_url)]

DictGet(d, k) == (CHOOSE p \in d : p[1] = k)[2]

\* HuggingFaceEmbeddings(model_name).embed: deterministic per model and text
embed(embedding_model_name, text) == <<embedding_model_name, text>>

\* variant that loses the last text of the batch
from_texts_DropLast(chunks, embedding_model_name) ==
    [k \in 1 .. Len(chunks) - 1 |->
        [vector       |-> embed(embedding_model_name, chunks[k].content),
         page_content |-> chunks[k].content,
         metadata     |-> [data_link |-> chunks[k].data_link, chunk_id |-> chunks[k].chunk_id]]]

\* FAISS.from_texts(texts, embedder, metadatas): one entry per chunk, in order
from_texts(chunks, embedding_model_name) ==
    [k \in DOMAIN chunks |->
        [vector       |-> embed(embedding_model_name, chunks[k].content),
         page_content |-> chunks[k].content,
         metadata     |-> [data_link |-> chunks[k].data_link, chunk_id |-> chunks[k].chunk_id]]]

\* What the file system holds at an index path.  save_local(index_path) makes
\* index_path a directory and writes index.faiss, then index.pkl, into it.
Absent == [kind |-> "absent", entries |-> {}, store |-> <<>>]
Dir(entries, store) == [kind |-> "dir", entries |-> entries, store |-> store]
IndexFiles == {"index.faiss", "index.pkl"}

\* how far create_vector_store gets
BuildOutcomes == {"ok", "embed_error", "save_error_after_mkdir", "save_error_after_faiss"}

\* the state of index_path after save_local ran as far as the outcome says
save_local(store, outcome) ==
    CASE outcome = "ok"                     -> Dir(IndexFiles, store)
      [] outcome = "save_error_after_mkdir" -> Dir({}, <<>>)
      [] outcome = "save_error_after_faiss" -> Dir({"index.faiss"}, <<>>)
      [] OTHER                              -> Absent

os_path_exists_Never(index_path) == FALSE
os_path_exists_Always(index_path) == TRUE

os_path_exists(index_path) == disk[index_path].kind # "absent"

\* FAISS.load_local reads both files and fails if one is missing
Loadable(index_path) ==
    disk[index_path].kind = "dir" /\ disk[index_path].entries = IndexFiles

NoChain == [set |-> FALSE, store |-> <<>>]
Chain(store) == [set |-> TRUE, store |-> store]

Op(op, path, model, chunks, branch, outcome, embedded, store) ==
    [op |-> op, json_file_path |-> path, embedding_model_name |-> model, chunks |-> chunks,
     branch |-> branch, outcome |-> outcome, embedded |-> embedded, store |-> store]
NoOp == Op("none", <<>>, <<>>, <<>>, "none", "none", 0, <<>>)

-----------------------------------------------------------------------------
(* app/streamlit-chat.py: the sidebar buttons *)

\* build_qa_chain(_vector_store, key, model_name) under st.cache_resource: the
\* underscore argument is not part of the cache key.
build_qa_chain(store, model_name) ==
    IF model_name \in DictKeys(memo_qa_chain)
    THEN DictGet(memo_qa_chain, model_name)
    ELSE Chain(store)

\* the handler's tail once load_or_create_vector_store returned store
Loaded(path, model, model_name, chunks, branch, embedded, store) ==
    /\ memo_load_or_create' = DictSet(memo_load_or_create, <<chunks, model, path>>, store)
    /\ memo_qa_chain' = DictSet(memo_qa_chain, model_name, build_qa_chain(store, model_name))
    /\ qa_chain' = build_qa_chain(store, model_name)
    /\ lastOp' = Op("load", path, model, chunks, branch, "ok", embedded, store)

\* the handler's end when an exception leaves load_or_create_vector_store
Raised(path, model, chunks, branch, embedded) ==
    /\ lastOp' = Op("load", path, model, chunks, branch, "error", embedded, <<>>)
    /\ UNCHANGED <<memo_load_or_create, memo_qa_chain, qa_chain>>

\* if st.button("Load Data & Create/Load Vector Store")
LoadButton(path, model, model_name) ==
    LET lc_key == <<path, BASE_URL>>
        chunks == IF lc_key \in DictKeys(memo_load_chunks)
                  THEN DictGet(memo_load_chunks, lc_key)
                  ELSE load_chunks(path, BASE_URL)
        key        == <<chunks, model, path>>
        index_path == IndexPath(path, model)
    IN
    /\ memo_load_chunks' = DictSet(memo_load_chunks, lc_key, chunks)
    /\ IF chunks = <<>>
       THEN \* st.error("No chunks loaded..."); st.stop()
            /\ lastOp' = Op("load", path, model, chunks, "no_chunks", "stopped", 0, <<>>)
            /\ UNCHANGED <<disk, memo_load_or_create, memo_create, memo_qa_chain, qa_chain>>
       ELSE IF key \in DictKeys(memo_load_or_create)
       THEN \* load_or_create_vector_store is answered from its cache
            /\ Loaded(path, model, model_name, chunks, "memo", 0,
                      DictGet(memo_load_or_create, key))
            /\ UNCHANGED <<disk, memo_create>>
       ELSE IF os_path_exists(index_path)
       THEN \* FAISS.load_local(index_path, embedder, ...)
            /\ IF Loadable(index_path)
               THEN Loaded(path, model, model_name, chunks, "load", 0, disk[index_path].store)
               ELSE Raised(path, model, chunks, "load", 0)
            /\ UNCHANGED <<disk, memo_create>>
       ELSE IF key \in DictKeys(memo_create)
       THEN \* create_vector_store is answered from its cache
            /\ Loaded(path, model, model_name, chunks, "build", 0, DictGet(memo_create, key))
            /\ UNCHANGED <<disk, memo_create>>
       ELSE \* create_vector_store: FAISS.from_texts, then save_local
            \E outcome \in BuildOutcomes :
               LET store == from_texts(chunks, model)
                   done  == IF outcome = "embed_error" THEN 0 ELSE Len(chunks)
               IN  /\ disk' = [disk EXCEPT ![index_path] = save_local(store, outcome)]
                   /\ IF outcome = "ok"
                      THEN /\ memo_create' = DictSet(memo_create, key, store)
                           /\ Loaded(path, model, model_name, chunks, "build", done, store)
                      ELSE /\ Raised(path, model, chunks, "build", done)
                           /\ UNCHANGED memo_create
    /\ UNCHANGED files
    /\ UNCHANGED <<crawlVars, extVars>>

\* if st.button("Delete Existing Vector Store")
DeleteButton(path, model) ==
    LET index_path == IndexPath(path, model)
    IN
    /\ IF os_path_exists(index_path)
       THEN \* os.remove(index_path): removes a regular file, raises on a
            \* directory and on a path that does not exist
            IF disk[index_path].kind = "file"
            THEN /\ lastOp' = Op("delete", path, model, <<>>, "remove", "ok", 0, <<>>)
                 /\ disk' = [disk EXCEPT ![index_path] = Absent]
            ELSE /\ lastOp' = Op("delete", path, model, <<>>, "remove", "error", 0, <<>>)
                 /\ UNCHANGED disk
       ELSE /\ lastOp' = Op("delete", path, model, <<>>, "not_found", "ok", 0, <<>>)
            /\ UNCHANGED disk
    /\ UNCHANGED <<files, memo_load_chunks, memo_load_or_create, memo_create,
                   memo_qa_chain, qa_chain>>
    /\ UNCHANGED <<crawlVars, extVars>>

\* chunker.py: chunk_content writes the chunk list to output_file
WriteDataset(path, dataset) ==
    /\ files[path] # File(dataset)
    /\ files' = [files EXCEPT ![path] = File(dataset)]
    /\ lastOp' = Op("write", path, <<>>, dataset, "none", "ok", 0, <<>>)
    /\ UNCHANGED <<disk, memo_load_chunks, memo_load_or_create, memo_create,
                   memo_qa_chain, qa_chain>>
    /\ UNCHANGED <<crawlVars, extVars>>

\* The Streamlit server process is restarted: the st.cache_* tables and the
\* session state live in its memory, the files stay.
Restart ==
    /\ memo_load_chunks # {}
    /\ memo_load_chunks' = {} /\ memo_load_or_create' = {} /\ memo_create' = {}
    /\ memo_qa_chain' = {}
    /\ qa_chain' = NoChain
    /\ UNCHANGED <<files, disk, lastOp>>
    /\ UNCHANGED <<crawlVars, extVars>>

IdleCache ==
    /\ files = [p \in Paths |-> NoFile]
    /\ disk = [ip \in IndexPaths |-> Absent]
    /\ memo_load_chunks = {} /\ memo_load_or_create = {} /\ memo_create = {}
    /\ memo_qa_chain = {}
    /\ qa_chain = NoChain
    /\ lastOp = NoOp

IdleCrawl ==
    /\ max_depth = 3
    /\ domain = "www.site.com"
    /\ start_url = A
    /\ crawler = "none"
    /\ visited = {} /\ data_content = {} /\ visited_urls = {}
    /\ stack = <<>> /\ crash = "none" /\ runs = 0
    /\ fetchLog = <<>> /\ failLog = {} /\ pruneLog = {}
    /\ combined_file = <<>>
    /\ visitedAtStart = {}

IdleChunker ==
    /\ input_file = NoFile
    /\ chunk_params = [chunk_size |-> 5000, chunk_overlap |-> 50]
    /\ chunker_result = [outcome |-> "none", written |-> 0]

NoQuery == [query |-> "", llm_failed |-> FALSE, outcome |-> "none",
            retrieved |-> <<>>, shown_sources |-> <<>>]

IdleChat ==
    /\ messages = <<>>
    /\ lastQuery = NoQuery

Workers == {1, 2}

\* a worker that has not called load_or_create_vector_store
IdleWorker == [pc |-> "idle", model |-> <<>>, embedded |-> FALSE, outcome |-> "none",
               store |-> <<>>]

IdleConc ==
    /\ workers = [w \in Workers |-> IdleWorker]
    /\ server = [same_process |-> TRUE, locks |-> {}, memo |-> {}]

IdleExt ==
    /\ index_names = {}
    /\ IdleChunker
    /\ IdleChat
    /\ IdleConc

InitCache == site = Site3 /\ IdleCrawl /\ IdleCache /\ IdleExt

NextCache ==
    \/ \E path \in Paths, model \in Models, model_name \in ChatModels :
          LoadButton(path, model, model_name)
    \/ \E path \in Paths, model \in Models : DeleteButton(path, model)
    \/ \E path \in Paths, dataset \in Datasets : WriteDataset(path, dataset)
    \/ Restart

SpecCache == InitCache /\ [][NextCache]_vars

-----------------------------------------------------------------------------
(* The crawl specification *)

InitCrawl == site \in Sites /\ IdleCrawl /\ IdleCache /\ IdleExt

StepCrawl ==
    \/ SwcEntry \/ SwcFetch \/ SwcParse \/ SwcLink
    \/ SsEntry \/ SsFetch \/ SsParse \/ SsLink

NextCrawl ==
    \/ \E url \in StartUrls : StartSwc(url)
    \/ \E url \in StartUrls, dom \in Domains, md \in 0 .. MaxDepthBound : StartSs(url, dom, md)
    \/ StepCrawl

SpecCrawl == InitCrawl /\ [][NextCrawl]_vars

\* The interpreter keeps executing a started call.
FairSpecCrawl == SpecCrawl /\ WF_vars(StepCrawl)

-----------------------------------------------------------------------------
(* app/chunker.py: chunk_content(input_file, output_file, chunk_size, chunk_overlap) *)

Min(a, b) == IF a < b THEN a ELSE b

\* RecursiveCharacterTextSplitter.split_text on a text without whitespace: the
\* characters are merged into pieces of chunk_size characters, each piece
\* starting with the last chunk_overlap characters of the one before; an empty
\* text gives no piece.
RECURSIVE Windows(_, _, _, _)
Windows(text, from, chunk_size, chunk_overlap) ==
    LET to == Min(from + chunk_size - 1, Len(text))
    IN  IF to = Len(text) THEN <<SubSeq(text, from, to)>>
        ELSE <<SubSeq(text, from, to)>>
                \o Windows(text, from + chunk_size - chunk_overlap, chunk_size, chunk_overlap)

split_text(text, chunk_size, chunk_overlap) ==
    IF text = <<>> THEN <<>> ELSE Windows(text, 1, chunk_size, chunk_overlap)

\* for i, chunk in enumerate(chunked_content): chunks.append({...})
ChunksOfLink(data_link, chunked_content) ==
    [k \in DOMAIN chunked_content |-> ChunkRecord(data_link, k - 1, chunked_content[k])]

\* for data_link, content in data.items(): ...
RECURSIVE ChunkAll(_, _, _)
ChunkAll(data, chunk_size, chunk_overlap) ==
    IF data = <<>> THEN <<>>
    ELSE ChunksOfLink(Head(data)[1], split_text(Head(data)[2], chunk_size, chunk_overlap))
            \o ChunkAll(Tail(data), chunk_size, chunk_overlap)

\* output_path of the script, the default "Path to Chunked JSON" of the app
OutputPath == <<"./data/content_chunks.json">>

\* the link identifiers and texts of the input mapping
InputLinks == {<<"a">>, <<"a", "_chunk_", "0">>, <<"/", "b">>}
InputTexts == {<<>>, <<"x", "y">>, <<"x", "y", "z", "w", "v">>}
MaxLinks == 2

\* json.load of a JSON object: a list of items with pairwise different keys
InputMappings ==
    {d \in UNION {[1 .. n -> InputLinks \X InputTexts] : n \in 0 .. MaxLinks} :
        \A j, k \in DOMAIN d : d[j][1] = d[k][1] => j = k}

ChunkParams == {[chunk_size |-> 2, chunk_overlap |-> 0],
                [chunk_size |-> 2, chunk_overlap |-> 1],
                [chunk_size |-> 3, chunk_overlap |-> 1]}

\* python chunker.py
RunChunker ==
    /\ chunker_result.outcome = "none"
    /\ IF ~input_file.exists
       THEN \* raise FileNotFoundError(f"Input file not found: {input_file}")
            /\ chunker_result' = [outcome |-> "FileNotFoundError", written |-> 0]
            /\ UNCHANGED files
       ELSE LET chunks == ChunkAll(input_file.data, chunk_params.chunk_size,
                                   chunk_params.chunk_overlap)
            IN  /\ files' = [files EXCEPT ![OutputPath] = File(chunks)]
                /\ chunker_result' = [outcome |-> "ok", written |-> Len(chunks)]
    /\ UNCHANGED <<disk, memo_load_chunks, memo_load_or_create, memo_create,
                   memo_qa_chain, qa_chain, lastOp>>
    /\ UNCHANGED <<index_names, input_file, chunk_params, messages, lastQuery,
                   workers, server>>
    /\ UNCHANGED crawlVars

InitChunker ==
    /\ site = Site3 /\ IdleCrawl
    /\ files \in [Paths -> {NoFile, File(Dataset1)}]
    /\ disk = [ip \in IndexPaths |-> Absent]
    /\ memo_load_chunks = {} /\ memo_load_or_create = {} /\ memo_create = {}
    /\ memo_qa_chain = {}
    /\ qa_chain = NoChain
    /\ lastOp = NoOp
    /\ index_names = {}
    /\ input_file \in {NoFile} \cup {File(d) : d \in InputMappings}
    /\ chunk_params \in ChunkParams
    /\ chunker_result = [outcome |-> "none", written |-> 0]
    /\ IdleChat
    /\ IdleConc

NextChunker == RunChunker

SpecChunker == InitChunker /\ [][NextChunker]_vars

-----------------------------------------------------------------------------
(* app/streamlit-chat.py: the chat interface *)

MaxMessages == 4        \* length of the transcript

Queries == {"about v1", "jobs v2", "hello"}

\* FAISS similarity search: the distance of two vectors of the same model
Distance(v, w) == IF v = w THEN 0 ELSE 1

\* retriever = _vector_store.as_retriever(search_kwargs={"k": 3}): the k entries
\* nearest to the query vector, nearest first, equal distances in index order
Retrieve(store, query, k) ==
    LET qvec    == embed(store[1].vector[1], query)
        Near(e) == Distance(e.vector, qvec) = 0
        Far(e)  == Distance(e.vector, qvec) # 0
        ranked  == SelectSeq(store, Near) \o SelectSeq(store, Far)
    IN  SubSeq(ranked, 1, Min(k, Len(ranked)))

\* if "qa_chain" in st.session_state: ... if user_input: ...
Query(user_input) ==
    /\ qa_chain.set
    /\ Len(messages) + 2 <= MaxMessages
    /\ \E llm_ok \in BOOLEAN :
         LET source_docs == Retrieve(qa_chain.store, user_input, 3)
             asked       == Append(messages, [role |-> "user", content |-> user_input])
         IN  IF llm_ok
             THEN \* response = qa_chain({"query": user_input}); the answer and the
                  \* source documents are displayed
                  /\ messages' = Append(asked, [role |-> "assistant", content |-> "answer"])
                  /\ lastQuery' = [query |-> user_input, llm_failed |-> FALSE,
                                   outcome |-> "answered", retrieved |-> source_docs,
                                   shown_sources |-> source_docs]
             ELSE \* the exception of the chat-completion call leaves qa_chain(...)
                  \* and the handler; the response with its source_documents is
                  \* never assigned
                  /\ messages' = asked
                  /\ lastQuery' = [query |-> user_input, llm_failed |-> TRUE,
                                   outcome |-> "exception", retrieved |-> source_docs,
                                   shown_sources |-> <<>>]
    /\ UNCHANGED <<index_names, input_file, chunk_params, chunker_result, workers, server>>
    /\ UNCHANGED <<crawlVars, cacheVars>>

\* if st.button("Reset Chat History")
ResetChat ==
    /\ messages # <<>>
    /\ messages' = <<>>
    /\ UNCHANGED <<index_names, input_file, chunk_params, chunker_result, lastQuery,
                   workers, server>>
    /\ UNCHANGED <<crawlVars, cacheVars>>

\* The session after "Load Data & Create/Load Vector Store" built the index of
\* a dataset with a model.
SessionLoaded(dataset, model, model_name) ==
    LET path   == OutputPath
        chunks == [k \in DOMAIN dataset |-> CompleteLink(dataset[k], BASE_URL)]
        store  == from_texts(chunks, model)
    IN  /\ files = [p \in Paths |-> File(dataset)]
        /\ disk = [ip \in IndexPaths |->
                      IF ip = IndexPath(path, model) THEN Dir(IndexFiles, store) ELSE Absent]
        /\ memo_load_chunks = {<< <<path, BASE_URL>>, chunks >>}
        /\ memo_load_or_create = {<< <<chunks, model, path>>, store >>}
        /\ memo_create = {<< <<chunks, model, path>>, store >>}
        /\ memo_qa_chain = {<<model_name, Chain(store)>>}
        /\ qa_chain = Chain(store)
        /\ lastOp = Op("load", path, model, chunks, "build", "ok", Len(chunks), store)

InitChat ==
    /\ site = Site3 /\ IdleCrawl
    /\ \E dataset \in Datasets, model \in Models, model_name \in ChatModels :
          SessionLoaded(dataset, model, model_name)
    /\ index_names = {}
    /\ IdleChunker
    /\ IdleChat
    /\ IdleConc

NextChat ==
    \/ \E user_input \in Queries : Query(user_input)
    \/ ResetChat

SpecChat == InitChat /\ [][NextChat]_vars

-----------------------------------------------------------------------------
(* app/streamlit-chat.py: two concurrent calls of load_or_create_vector_store. *)
(* The calls come from two sessions.  Sessions of one server process share     *)
(* the st.cache_resource of the function, which holds a lock per argument key *)
(* while a missed call computes; sessions of two server processes started in  *)
(* the same directory share nothing but FAISS_INDEX_DIR.  The functions take  *)
(* no lock of their own.                                                      *)

\* chunks = load_chunks(JSON_FILE_PATH, BASE_URL)
ConcChunks == load_chunks(OutputPath, BASE_URL)

ConcKey(model) == <<ConcChunks, model, OutputPath>>
ConcIndexPath(w) == IndexPath(OutputPath, workers[w].model)

Goto(w, pc) == [workers EXCEPT ![w].pc = pc]

\* the call returns or raises: the cache releases the key and keeps a returned value
Finish(w, outcome, store) ==
    /\ workers' = [workers EXCEPT ![w].pc = "done", ![w].outcome = outcome, ![w].store = store]
    /\ IF server.same_process
       THEN server' = [server EXCEPT
                          !.locks = @ \ {ConcKey(workers[w].model)},
                          !.memo  = IF outcome = "load_error" THEN @
                                    ELSE DictSet(@, ConcKey(workers[w].model), store)]
       ELSE UNCHANGED server

\* vector_store = load_or_create_vector_store(chunks, embedding_model, JSON_FILE_PATH)
Call(w, model) ==
    /\ workers[w].pc = "idle"
    /\ IF server.same_process /\ ConcKey(model) \in DictKeys(server.memo)
       THEN /\ workers' = [workers EXCEPT ![w] =
                              [pc |-> "done", model |-> model, embedded |-> FALSE,
                               outcome |-> "memo",
                               store |-> DictGet(server.memo, ConcKey(model))]]
            /\ UNCHANGED server
       ELSE /\ workers' = [workers EXCEPT ![w].pc = "exists", ![w].model = model]
            /\ IF server.same_process
               THEN /\ ConcKey(model) \notin server.locks
                    /\ server' = [server EXCEPT !.locks = @ \cup {ConcKey(model)}]
               ELSE UNCHANGED server
    /\ UNCHANGED <<files, disk, memo_load_chunks, memo_load_or_create, memo_create,
                   memo_qa_chain, qa_chain, lastOp>>
    /\ UNCHANGED <<index_names, input_file, chunk_params, chunker_result, messages, lastQuery>>
    /\ UNCHANGED crawlVars

\* if os.path.exists(index_path)
CheckExists(w) ==
    /\ workers[w].pc = "exists"
    /\ workers' = Goto(w, IF os_path_exists(ConcIndexPath(w)) THEN "load" ELSE "embed")
    /\ UNCHANGED <<files, disk, memo_load_chunks, memo_load_or_create, memo_create,
                   memo_qa_chain, qa_chain, lastOp>>
    /\ UNCHANGED <<index_names, input_file, chunk_params, chunker_result, messages, lastQuery,
                   server>>
    /\ UNCHANGED crawlVars

\* vector_store = FAISS.load_local(index_path, embedder, ...)
Load(w) ==
    /\ workers[w].pc = "load"
    /\ IF Loadable(ConcIndexPath(w))
       THEN Finish(w, "loaded", disk[ConcIndexPath(w)].store)
       ELSE Finish(w, "load_error", <<>>)
    /\ UNCHANGED <<files, disk, memo_load_chunks, memo_load_or_create, memo_create,
                   memo_qa_chain, qa_chain, lastOp>>
    /\ UNCHANGED <<index_names, input_file, chunk_params, chunker_result, messages, lastQuery>>
    /\ UNCHANGED crawlVars

\* create_vector_store: vector_store = FAISS.from_texts(...)
Embed(w) ==
    /\ workers[w].pc = "embed"
    /\ workers' = [workers EXCEPT ![w].pc = "mkdir", ![w].embedded = TRUE,
                                  ![w].store = from_texts(ConcChunks, workers[w].model)]
    /\ UNCHANGED <<files, disk, memo_load_chunks, memo_load_or_create, memo_create,
                   memo_qa_chain, qa_chain, lastOp>>
    /\ UNCHANGED <<index_names, input_file, chunk_params, chunker_result, messages, lastQuery,
                   server>>
    /\ UNCHANGED crawlVars

\* vector_store.save_local(index_path): the directory is made if it is missing
Mkdir(w) ==
    /\ workers[w].pc = "mkdir"
    /\ disk' = [disk EXCEPT ![ConcIndexPath(w)] = IF @.kind = "absent" THEN Dir({}, <<>>) ELSE @]
    /\ workers' = Goto(w, "faiss")
    /\ UNCHANGED <<files, memo_load_chunks, memo_load_or_create, memo_create,
                   memo_qa_chain, qa_chain, lastOp>>
    /\ UNCHANGED <<index_names, input_file, chunk_params, chunker_result, messages, lastQuery,
                   server>>
    /\ UNCHANGED crawlVars

\* save_local: index.faiss is written
WriteFaiss(w) ==
    /\ workers[w].pc = "faiss"
    /\ disk' = [disk EXCEPT ![ConcIndexPath(w)] = Dir(@.entries \cup {"index.faiss"}, @.store)]
    /\ workers' = Goto(w, "pkl")
    /\ UNCHANGED <<files, memo_load_chunks, memo_load_or_create, memo_create,
                   memo_qa_chain, qa_chain, lastOp>>
    /\ UNCHANGED <<index_names, input_file, chunk_params, chunker_result, messages, lastQuery,
                   server>>
    /\ UNCHANGED crawlVars

\* save_local: index.pkl is written; create_vector_store and its caller return
WritePkl(w) ==
    /\ workers[w].pc = "pkl"
    /\ disk' = [disk EXCEPT ![ConcIndexPath(w)] =
                   Dir(@.entries \cup {"index.pkl"}, workers[w].store)]
    /\ Finish(w, "built", workers[w].store)
    /\ UNCHANGED <<files, memo_load_chunks, memo_load_or_create, memo_create,
                   memo_qa_chain, qa_chain, lastOp>>
    /\ UNCHANGED <<index_names, input_file, chunk_params, chunker_result, messages, lastQuery>>
    /\ UNCHANGED crawlVars

InitConc ==
    /\ site = Site3 /\ IdleCrawl
    /\ files \in [Paths -> {File(d) : d \in Datasets}]
    /\ disk = [ip \in IndexPaths |-> Absent]
    /\ memo_load_chunks = {} /\ memo_load_or_create = {} /\ memo_create = {}
    /\ memo_qa_chain = {}
    /\ qa_chain = NoChain
    /\ lastOp = NoOp
    /\ index_names = {}
    /\ IdleChunker
    /\ IdleChat
    /\ workers = [w \in Workers |-> IdleWorker]
    /\ server \in {[same_process |-> b, locks |-> {}, memo |-> {}] : b \in BOOLEAN}

NextConc ==
    \E w \in Workers :
        \/ \E model \in Models : Call(w, model)
        \/ CheckExists(w)
        \/ Load(w)
        \/ Embed(w)
        \/ Mkdir(w)
        \/ WriteFaiss(w)
        \/ WritePkl(w)

SpecConc == InitConc /\ [][NextConc]_vars

-----------------------------------------------------------------------------
(* app/streamlit-chat.py: get_index_name as a function of arbitrary strings *)

\* argument strings, some of which contain the "_" the function joins with
NamePaths  == {<<"data">>, <<"data", "_", "v2">>, <<"other">>}
NameModels == {<<"MiniLM">>, <<"v2", "_", "MiniLM">>, <<"roberta">>}

\* index_name = get_index_name(json_file_path, embedding_model_name)
ComputeName(path, model) ==
    /\ index_names' = DictSet(index_names, <<path, model>>, get_index_name(path, model))
    /\ UNCHANGED <<input_file, chunk_params, chunker_result, messages, lastQuery,
                   workers, server>>
    /\ UNCHANGED <<crawlVars, cacheVars>>

InitName == site = Site3 /\ IdleCrawl /\ IdleCache /\ IdleExt

NextName == \E path \in NamePaths, model \in NameModels : ComputeName(path, model)

SpecName == InitName /\ [][NextName]_vars

-----------------------------------------------------------------------------
(* Properties of the crawlers *)

RunDone == runs > 0 /\ stack = <<>>
FetchedUrls == {fetchLog[k].url : k \in DOMAIN fetchLog}
PageFailures == {f \in failLog : f.kind \in {"fetch", "parse"}}

\* C1: within one crawl run of either crawler, no URL string is passed to
\* driver.get more than once.
C1_NoRefetch ==
    \A j, k \in DOMAIN fetchLog : fetchLog[j].url = fetchLog[k].url => j = k

\* a finished scrape_site run that fetched several pages and met a link to an
\* already visited URL within the depth bound
C1_Witness ==
    /\ RunDone /\ crawler = SS /\ Len(fetchLog) >= 2
    /\ \E p \in pruneLog : p.depth <= max_depth /\ p.url \in FetchedUrls

\* C2: every started crawl comes to an end, and not by exhausting the call
\* stack (the form unbounded recursion takes in the interpreter).
C2_Terminates ==
    (stack # <<>>) ~> (stack = <<>> /\ \A f \in failLog : f.kind # "RecursionError")

\* a finished run over a cyclic site: a page linked back to the start URL
C2_Witness ==
    /\ RunDone /\ crash = "none" /\ crawler = SS
    /\ \E p \in pruneLog : p.url = start_url /\ p.depth >= 1 /\ p.depth <= max_depth

\* the URLs reachable from u by anchors that stay on the netloc of their page
RECURSIVE ReachableFrom(_)
ReachableFrom(S) ==
    LET next == S \cup {urljoin(u, Anchors(u)[k]) : <<u, k>> \in
                          {<<v, j>> \in S \X (1 .. 4) :
                              /\ j \in DOMAIN Anchors(v)
                              /\ netloc(urljoin(v, Anchors(v)[j])) = netloc(v)}}
    IN  IF next = S THEN S ELSE ReachableFrom(next)

\* C3 (as claimed): a scrape_with_content run that starts with an empty visited
\* set and meets no fetch or parse failure ends with visited equal to the set
\* of URLs reachable from the start URL.
C3_VisitedIsReachable ==
    (RunDone /\ crawler = SWC /\ visitedAtStart = {} /\ PageFailures = {})
        => visited = ReachableFrom({start_url})

\* the hosts whose registrable domain is site.com
SiteComHosts == {"www.site.com", "blog.site.com"}

\* C4: every URL passed to driver.get lies in the registrable domain of the
\* scope the run was started in.
C4_ScopeOnly ==
    \A k \in DOMAIN fetchLog : netloc(fetchLog[k].url) \in SiteComHosts

\* a finished scrape_site run that processed pages linking to other domains
\* and schemes and followed a link to another host of the same domain
C4_Witness ==
    /\ RunDone /\ crawler = SS /\ site = SiteMixed
    /\ Blog \in FetchedUrls
    /\ \E k \in DOMAIN combined_file : combined_file[k] = B

\* the in-scope link targets of a page, as the running crawler resolves them
ScopedLinks(u) ==
    {urljoin(u, Anchors(u)[k]) : k \in
        {j \in DOMAIN Anchors(u) :
            LET l == urljoin(u, Anchors(u)[j])
            IN  IF crawler = SWC THEN netloc(l) = netloc(u)
                ELSE scheme(l) \in {"http", "https"} /\ netloc(l) \in SiteComHosts}}

\* C5 (as claimed): a fetch or parse failure never ends the crawl, and when the
\* run is over every in-scope link of the callers of a failed page is visited.
C5_FailureContained ==
    /\ crash = "none"
    /\ RunDone =>
         \A f \in PageFailures : \A a \in f.ancestors : \A l \in ScopedLinks(a) :
            l \in (IF crawler = SWC THEN visited ELSE visited_urls)

\* C6: scrape_site fetches no page at a depth above max_depth, and a call at
\* such a depth returns without an error, a fetch or a change of visited_urls.
C6_DepthBound ==
    /\ [](\A k \in DOMAIN fetchLog : crawler = SS => fetchLog[k].depth <= max_depth)
    /\ [][(At(SS, "entry") /\ Top.current_depth > max_depth) =>
            /\ stack' = Pop
            /\ fetchLog' = fetchLog /\ visited_urls' = visited_urls
            /\ failLog' = failLog /\ crash' = crash]_vars

\* a finished run in which a call above max_depth returned and left its URL
\* unvisited
C6_Witness ==
    /\ RunDone /\ crawler = SS /\ crash = "none"
    /\ \E p \in pruneLog : p.depth > max_depth /\ p.url \notin visited_urls

-----------------------------------------------------------------------------
(* Properties of the index cache *)

CompleteIndex(ip) == disk[ip].kind = "dir" /\ disk[ip].entries = {"index.faiss", "index.pkl"}

\* C7 (as claimed): at every index path the file system holds nothing or a
\* complete, loadable index, and a load from an existing path never fails.
C7_CompleteOrAbsent ==
    /\ \A ip \in IndexPaths : disk[ip].kind = "absent" \/ CompleteIndex(ip)
    /\ (lastOp.op = "load" /\ lastOp.branch = "load") => lastOp.outcome = "ok"

\* C8: a call of load_or_create_vector_store that finds the index path
\* existing computes no embedding and, the index being complete, returns the
\* persisted entries; and of two successive calls with the same arguments that
\* both return, the second computes no embedding and returns the same entries.
C8_CacheHit ==
    [][\A path \in Paths, model \in Models, model_name \in ChatModels :
         (LoadButton(path, model, model_name) /\ lastOp'.branch # "no_chunks") =>
            /\ disk[IndexPath(path, model)].kind # "absent" =>
                  /\ lastOp'.embedded = 0
                  /\ CompleteIndex(IndexPath(path, model)) =>
                        /\ lastOp'.outcome = "ok"
                        /\ lastOp'.store = disk[IndexPath(path, model)].store
            /\ ( /\ lastOp.op = "load" /\ lastOp.outcome = "ok"
                 /\ lastOp.json_file_path = path /\ lastOp.embedding_model_name = model
                 /\ lastOp.chunks = lastOp'.chunks
                 /\ lastOp'.outcome = "ok" ) =>
                  /\ lastOp'.embedded = 0
                  /\ lastOp'.store = lastOp.store]_vars

\* a call that returned the persisted index, read from disk, while the session
\* held no cached store: the index was built by an earlier call of a process
\* that has since been restarted
C8_Witness ==
    /\ lastOp.op = "load" /\ lastOp.branch = "load" /\ lastOp.outcome = "ok"
    /\ lastOp.embedded = 0 /\ Len(lastOp.store) = Len(lastOp.chunks)
    /\ CompleteIndex(IndexPath(lastOp.json_file_path, lastOp.embedding_model_name))

\* store holds exactly one entry per chunk of chunks, in order
OneEntryPerChunk(store, chunks) ==
    /\ Len(store) = Len(chunks)
    /\ \A k \in DOMAIN chunks :
          /\ store[k].metadata.chunk_id = chunks[k].chunk_id
          /\ store[k].page_content = chunks[k].content

\* C9 (as claimed): the index load_or_create_vector_store returns holds exactly
\* one entry per chunk of the chunks passed to that call.
C9_IndexOfPassedChunks ==
    (lastOp.op = "load" /\ lastOp.outcome = "ok")
        => OneEntryPerChunk(lastOp.store, lastOp.chunks)

\* C9 (amended): the returned index holds exactly one entry per chunk of one
\* version of the dataset; it is the version passed to the call when the call
\* builds the index, and the persisted entries, whatever chunks are passed,
\* when the call loads it.
C9_IndexOfBuildingCall ==
    [][\A path \in Paths, model \in Models, model_name \in ChatModels :
         (LoadButton(path, model, model_name) /\ lastOp'.outcome = "ok") =>
            /\ \E d \in Datasets : OneEntryPerChunk(lastOp'.store, d)
            /\ \A k \in DOMAIN lastOp'.store :
                  lastOp'.store[k].vector = <<model, lastOp'.store[k].page_content>>
            /\ lastOp'.embedded > 0 =>
                  /\ lastOp'.embedded = Len(lastOp'.chunks)
                  /\ OneEntryPerChunk(lastOp'.store, lastOp'.chunks)
                  /\ disk'[IndexPath(path, model)].store = lastOp'.store
            /\ lastOp'.branch = "load" =>
                  /\ lastOp'.store = disk[IndexPath(path, model)].store
                  /\ disk' = disk]_vars

\* a call that was passed the rewritten dataset and returned the index of the
\* older version persisted under the same path and model
C9_Witness ==
    /\ lastOp.op = "load" /\ lastOp.outcome = "ok" /\ lastOp.branch = "load"
    /\ ~OneEntryPerChunk(lastOp.store, lastOp.chunks)
    /\ files[lastOp.json_file_path].exists
    /\ Len(lastOp.chunks) = Len(files[lastOp.json_file_path].data)
    /\ \A k \in DOMAIN lastOp.chunks :
          lastOp.chunks[k].chunk_id = files[lastOp.json_file_path].data[k].chunk_id

\* C10 (as claimed): pressing delete while a complete index written by
\* create_vector_store is persisted removes it, and the next call of
\* load_or_create_vector_store for that fingerprint builds the index.
C10_DeleteRemoves ==
    /\ [][\A path \in Paths, model \in Models :
            (DeleteButton(path, model) /\ CompleteIndex(IndexPath(path, model)))
                => disk'[IndexPath(path, model)].kind = "absent"]_vars
    /\ [][\A path \in Paths, model \in Models, model_name \in ChatModels :
            ( /\ LoadButton(path, model, model_name) /\ lastOp'.branch # "no_chunks"
              /\ lastOp.op = "delete" /\ lastOp.branch = "remove"
              /\ lastOp.json_file_path = path /\ lastOp.embedding_model_name = model )
                => lastOp'.branch = "build"]_vars

\* C11: pressing delete for a fingerprint that has no persisted index raises
\* nothing and changes nothing on disk, the indices of the other fingerprints
\* included.
C11_DeleteAbsentIsNoOp ==
    [][\A path \in Paths, model \in Models :
         (DeleteButton(path, model) /\ disk[IndexPath(path, model)].kind = "absent") =>
            /\ lastOp'.outcome = "ok"
            /\ disk' = disk /\ files' = files]_vars

\* delete was pressed for a fingerprint without an index while another
\* fingerprint has its index on disk
C11_Witness ==
    /\ lastOp.op = "delete" /\ lastOp.outcome = "ok" /\ lastOp.branch = "not_found"
    /\ disk[IndexPath(lastOp.json_file_path, lastOp.embedding_model_name)].kind = "absent"
    /\ \E ip \in IndexPaths : CompleteIndex(ip)

\* C12 (as claimed): a call that finds the index path existing but unreadable
\* rebuilds the index from its chunks and returns the rebuilt index.
C12_UnreadableIsCacheMiss ==
    [][\A path \in Paths, model \in Models, model_name \in ChatModels :
         ( /\ LoadButton(path, model, model_name)
           /\ lastOp'.branch \notin {"no_chunks", "memo"}
           /\ disk[IndexPath(path, model)].kind # "absent"
           /\ ~CompleteIndex(IndexPath(path, model)) ) =>
              /\ lastOp'.outcome = "ok"
              /\ OneEntryPerChunk(lastOp'.store, lastOp'.chunks)
              /\ CompleteIndex(IndexPath(path, model))']_vars

-----------------------------------------------------------------------------
(* Properties of get_index_name *)

\* C13 (as claimed): get_index_name gives one name per argument pair, and two
\* argument pairs get the same name exactly when they are the same pair.
C13_NameInjective ==
    \A p, q \in index_names : (p[2] = q[2]) <=> (p[1] = q[1])

-----------------------------------------------------------------------------
(* Properties of the chunker *)

Written == files[OutputPath].data

\* C14: no two chunks of the list chunk_content writes have the same chunk_id,
\* also when a link identifier contains "_chunk_".
C14_ChunkIdsUnique ==
    chunker_result.outcome = "ok" =>
        \A j, k \in DOMAIN Written : Written[j].chunk_id = Written[k].chunk_id => j = k

\* a written list with several chunks of the link "a" and chunks of the link
\* "a_chunk_0"
C14_Witness ==
    /\ chunker_result.outcome = "ok"
    /\ \E j, k \in DOMAIN Written :
          /\ j # k /\ Written[j].data_link = <<"a">> /\ Written[k].data_link = <<"a">>
    /\ \E k \in DOMAIN Written : Written[k].data_link = <<"a", "_chunk_", "0">>

\* C15 (as claimed): on a missing source file or an empty dataset chunk_content
\* raises an error and leaves the output file as it was.
C15_FailsFast ==
    [][(RunChunker /\ (~input_file.exists \/ input_file.data = <<>>)) =>
          /\ chunker_result'.outcome \notin {"ok", "none"}
          /\ files' = files]_vars

-----------------------------------------------------------------------------
(* Properties of the chat *)

\* C16 (as claimed): when the chat-completion call of a query fails, the
\* handler ends in a generation-failed outcome of its own and the chunks
\* retrieved for the query are still shown.
C16_SourcesSurviveFailure ==
    lastQuery.llm_failed =>
        /\ lastQuery.outcome = "generation_failed"
        /\ lastQuery.shown_sources = lastQuery.retrieved

-----------------------------------------------------------------------------
(* Properties of the link->text map *)

\* a key that is a URL with a scheme, as opposed to an attribute value kept
\* as it was found
IsAbsoluteUrl(k) == "scheme" \in DOMAIN k /\ k.scheme # ""

\* C17 (as claimed): every key of data_content is an absolute URL, whichever
\* form (fragment-only, rooted path, absolute) the data-link value had on its
\* page.
C17_KeysAbsolute ==
    \A k \in DictKeys(data_content) : IsAbsoluteUrl(k)

\* the outermost call of a run has been made and has not executed a statement
RunStarting == Len(stack) = 1 /\ Top.pc = "entry"

\* C18 (as claimed): a crawl run begins with an empty visited set (and, for
\* crawler.py, an empty link->text map), whatever ran before it in the
\* process, and so a finished run has fetched its start URL.
C18_RunStartsEmpty ==
    /\ RunStarting =>
         IF crawler = SWC THEN visited = {} /\ data_content = {}
                          ELSE visited_urls = {}
    /\ RunDone => start_url \in FetchedUrls

-----------------------------------------------------------------------------
(* Properties of concurrent builds *)

\* two calls for the same fingerprint
SameFingerprint(w, v) ==
    w # v /\ workers[w].pc # "idle" /\ workers[v].pc # "idle"
          /\ workers[w].model = workers[v].model

\* C19 (as claimed): of two concurrent calls for one fingerprint, started
\* while no index is persisted, at most one embeds the chunks, and none is
\* loading the index while the other is writing it or fails to load it.
C19_BuildsSerialized ==
    \A w, v \in Workers : SameFingerprint(w, v) =>
        /\ ~(workers[w].embedded /\ workers[v].embedded)
        /\ ~(workers[w].pc = "load" /\ workers[v].pc \in {"faiss", "pkl"})
        /\ workers[w].outcome # "load_error"

-----------------------------------------------------------------------------
(* Properties of the chunk records in the index *)

\* chunk_id = data_link + "_chunk_" + ordinal
IdOfLink(chunk_id, data_link) ==
    /\ Len(chunk_id) = Len(data_link) + 2
    /\ SubSeq(chunk_id, 1, Len(data_link)) = data_link
    /\ chunk_id[Len(data_link) + 1] = "_chunk_"

\* C20 (as claimed): in the store a load returns, and in every index on disk,
\* the chunk_id of each entry is the entry's data_link followed by "_chunk_"
\* and an ordinal.
C20_ChunkIdOfDataLink ==
    /\ \A k \in DOMAIN lastOp.store :
          IdOfLink(lastOp.store[k].metadata.chunk_id, lastOp.store[k].metadata.data_link)
    /\ \A ip \in IndexPaths : \A k \in DOMAIN disk[ip].store :
          IdOfLink(disk[ip].store[k].metadata.chunk_id, disk[ip].store[k].metadata.data_link)

-----------------------------------------------------------------------------
(* Properties of the depth-bounded traversal *)

\* the link targets of page u that scrape_site follows
SsLinks(u) ==
    {l \in {urljoin(u, Anchors(u)[k]) : k \in DOMAIN Anchors(u)} :
        is_valid_url(l) /\ is_same_domain(l, domain)}

\* the URLs within n links of the URLs of S
RECURSIVE WithinDistance(_, _)
WithinDistance(S, n) ==
    IF n = 0 THEN S
    ELSE WithinDistance(S \cup UNION {SsLinks(u) : u \in S}, n - 1)

\* C21 (as claimed): when a scrape_site run that started with an empty
\* visited_urls ends without a failure, every URL whose shortest link distance
\* from the start URL is at most max_depth is in visited_urls.
C21_VisitsWithinDepth ==
    (RunDone /\ crawler = SS /\ visitedAtStart = {} /\ failLog = {})
        => WithinDistance({start_url}, max_depth) \subseteq visited_urls

====
